---------------------------- MODULE Spec2Model ----------------------------
(***************************************************************************)
(* Model of nyaa/search.py: the two query compilers search_elastic and     *)
(* search_db.  A request is compiled by each of them into a query (sort,   *)
(* filters, window) or ends in an abort (400, 404) or an uncaught Python   *)
(* exception.                                                              *)
(*                                                                         *)
(* Python strings are sequences of one-character strings, so that          *)
(* str.lower(), dictionary lookup by the raw string and the regular        *)
(* expression ^(\d+)_(\d+)$ are computed and not assumed.                  *)
(***************************************************************************)
EXTENDS Integers, Sequences, FiniteSets, TLC

VARIABLES req, es, sq

vars == <<req, es, sq>>

(***************************************************************************)
(* Bounds of the model.                                                    *)
(***************************************************************************)
NumUsers == 2
MaxPage == 5
MaxPerPage == 3
MaxResultsBound == 5

(***************************************************************************)
(* Strings                                                                 *)
(***************************************************************************)
UpperCase == <<"A","B","C","D","E","F","G","H","I","J","K","L","M",
               "N","O","P","Q","R","S","T","U","V","W","X","Y","Z">>
LowerCase == <<"a","b","c","d","e","f","g","h","i","j","k","l","m",
               "n","o","p","q","r","s","t","u","v","w","x","y","z">>

LowerChar(c) ==
    IF \E i \in 1..26 : UpperCase[i] = c
    THEN LowerCase[CHOOSE i \in 1..26 : UpperCase[i] = c]
    ELSE c

\* str.lower()
Lower(s) == [i \in 1..Len(s) |-> LowerChar(s[i])]

Digits == <<"0","1","2","3","4","5","6","7","8","9">>

IsDigit(c) == \E i \in 1..10 : Digits[i] = c

DigitValue(c) == (CHOOSE i \in 1..10 : Digits[i] = c) - 1

IsDigits(s) == Len(s) > 0 /\ \A i \in 1..Len(s) : IsDigit(s[i])

\* int() of a string of decimal digits
RECURSIVE ParseInt(_)
ParseInt(s) ==
    IF Len(s) = 0 THEN 0
    ELSE 10 * ParseInt(SubSeq(s, 1, Len(s) - 1)) + DigitValue(s[Len(s)])

\* The part of the string that ^...$ has to cover: $ also matches just
\* before a newline that ends the string.
DollarBody(s) ==
    IF Len(s) > 0 /\ s[Len(s)] = "\n" THEN SubSeq(s, 1, Len(s) - 1) ELSE s

\* The positions of the "_" at which ^(\d+)_(\d+)$ matches (at most one).
CatSplits(category) ==
    LET b == DollarBody(category)
    IN  { k \in 1..Len(b) : /\ b[k] = "_"
                            /\ IsDigits(SubSeq(b, 1, k - 1))
                            /\ IsDigits(SubSeq(b, k + 1, Len(b))) }

\* re.match(r'^(\d+)_(\d+)$', category)
cat_match(category) == CatSplits(category) # {}

\* int(cat_match.group(1)), int(cat_match.group(2))
cat_ids(category) ==
    LET b == DollarBody(category)
        k == CHOOSE k \in CatSplits(category) : TRUE
    IN  <<ParseInt(SubSeq(b, 1, k - 1)), ParseInt(SubSeq(b, k + 1, Len(b)))>>

(***************************************************************************)
(* Collaborators: the user directory, the category catalog, TorrentFlags.  *)
(***************************************************************************)
None == 0

\* models.User.by_id: the users 1..NumUsers exist.
UserIds == 1..NumUsers

User_by_id(user) == IF user \in UserIds THEN user ELSE None

MainCategoryIds == {1, 2}

SubCategoryIds == {<<1, 1>>, <<1, 2>>, <<2, 1>>}

\* models.MainCategory.by_id
MainCategory_by_id(main_cat_id) == main_cat_id \in MainCategoryIds

\* models.SubCategory.by_category_ids
SubCategory_by_category_ids(main_cat_id, sub_cat_id) ==
    <<main_cat_id, sub_cat_id>> \in SubCategoryIds

ANONYMOUS == 1
HIDDEN == 2
TRUSTED == 4
REMAKE == 8
COMPLETE == 16
DELETED == 32

RECURSIVE BitAnd(_, _)
BitAnd(a, b) ==
    IF a = 0 \/ b = 0 THEN 0
    ELSE (a % 2) * (b % 2) + 2 * BitAnd(a \div 2, b \div 2)

RECURSIVE BitOr(_, _)
BitOr(a, b) ==
    IF a = 0 THEN b
    ELSE IF b = 0 THEN a
    ELSE (IF a % 2 = 1 \/ b % 2 = 1 THEN 1 ELSE 0) + 2 * BitOr(a \div 2, b \div 2)

(***************************************************************************)
(* Outcomes                                                                *)
(***************************************************************************)
Pending == [status |-> "pending"]

\* flask.abort(code)
Abort(code) == [status |-> code]

\* an exception nothing catches (KeyError, AttributeError)
Raise(exc) == [status |-> "exception", exc |-> exc]

(***************************************************************************)
(* search_elastic                                                          *)
(***************************************************************************)
s_id == <<"i","d">>
s_size == <<"s","i","z","e">>
s_seeders == <<"s","e","e","d","e","r","s">>
s_leechers == <<"l","e","e","c","h","e","r","s">>
s_downloads == <<"d","o","w","n","l","o","a","d","s">>
s_desc == <<"d","e","s","c">>
s_asc == <<"a","s","c">>

es_sort_keys ==
    (s_id :> <<"id">>) @@ (s_size :> <<"filesize">>) @@
    (s_seeders :> <<"seed_count">>) @@ (s_leechers :> <<"leech_count">>) @@
    (s_downloads :> <<"download_count">>)

order_keys == {s_desc, s_asc}

quality_keys == {<<"0">>, <<"1">>, <<"2">>, <<"3">>}

\* es_sort after lines 37-55: the field is looked up with the caller's sort
\* before rss replaces sort and order; only order still matters afterwards.
es_sort_of(sort, order, rss) ==
    LET es_sort == es_sort_keys[sort]
        order2 == IF rss THEN s_desc ELSE order
    IN  IF s_desc = order2 THEN <<"-">> \o es_sort ELSE es_sort

Term(field, value) == [kind |-> "term", field |-> field, value |-> value]

BoolOr(a, b) == [kind |-> "or", a |-> a, b |-> b]

\* es_visibility with line 129 testing only "not same_user".
es_visibility_owner_in_rss(user, logged_in_user, admin, rss) ==
    LET same_user == IF logged_in_user # None THEN user = logged_in_user ELSE FALSE
    IN  IF user # None
        THEN <<Term("uploader_id", user)>> \o
             (IF ~admin
              THEN <<Term("deleted", FALSE)>> \o
                   (IF ~same_user
                    THEN <<Term("hidden", FALSE), Term("anonymous", FALSE)>>
                    ELSE <<>>)
              ELSE <<>>)
        ELSE IF ~admin
             THEN <<Term("deleted", FALSE)>> \o
                  (IF logged_in_user # None /\ ~rss
                   THEN <<BoolOr(Term("hidden", FALSE),
                                 Term("uploader_id", logged_in_user))>>
                   ELSE <<Term("hidden", FALSE)>>)
             ELSE <<>>

\* es_visibility with line 139 testing only "logged_in_user".
es_visibility_own_hidden_in_rss(user, logged_in_user, admin, rss) ==
    LET same_user == IF logged_in_user # None THEN user = logged_in_user ELSE FALSE
    IN  IF user # None
        THEN <<Term("uploader_id", user)>> \o
             (IF ~admin
              THEN <<Term("deleted", FALSE)>> \o
                   (IF ~same_user \/ rss
                    THEN <<Term("hidden", FALSE), Term("anonymous", FALSE)>>
                    ELSE <<>>)
              ELSE <<>>)
        ELSE IF ~admin
             THEN <<Term("deleted", FALSE)>> \o
                  (IF logged_in_user # None
                   THEN <<BoolOr(Term("hidden", FALSE),
                                 Term("uploader_id", logged_in_user))>>
                   ELSE <<Term("hidden", FALSE)>>)
             ELSE <<>>

\* The visibility filters of lines 114-145; user is the resolved id or None.
es_visibility(user, logged_in_user, admin, rss) ==
    LET same_user == IF logged_in_user # None THEN user = logged_in_user ELSE FALSE
    IN  IF user # None
        THEN <<Term("uploader_id", user)>> \o
             (IF ~admin
              THEN <<Term("deleted", FALSE)>> \o
                   (IF ~same_user \/ rss
                    THEN <<Term("hidden", FALSE), Term("anonymous", FALSE)>>
                    ELSE <<>>)
              ELSE <<>>)
        ELSE IF ~admin
             THEN <<Term("deleted", FALSE)>> \o
                  (IF logged_in_user # None /\ ~rss
                   THEN <<BoolOr(Term("hidden", FALSE),
                                 Term("uploader_id", logged_in_user))>>
                   ELSE <<Term("hidden", FALSE)>>)
             ELSE <<>>

\* Lines 147-151; main_category and sub_category are the catalog's answers.
es_category_filter(main_category, sub_category, main_cat_id, sub_cat_id) ==
    IF main_category THEN <<Term("main_category_id", main_cat_id)>>
    ELSE IF sub_category
         THEN <<Term("main_category_id", main_cat_id),
                Term("sub_category_id", sub_cat_id)>>
         ELSE <<>>

\* Lines 153-160
es_quality_filter(quality_filter) ==
    CASE quality_filter = 0 -> <<>>
      [] quality_filter = 1 -> <<Term("remake", FALSE)>>
      [] quality_filter = 2 -> <<Term("trusted", TRUE)>>
      [] quality_filter = 3 -> <<Term("complete", TRUE)>>

\* int(math.ceil(a / float(b)))
CeilDiv(a, b) == (a + b - 1) \div b

Min(a, b) == IF a <= b THEN a ELSE b

\* es_window with the page taken as given.
es_window_page_unclamped(page, per_page, max_search_results, rss) ==
    IF rss THEN <<0, per_page>>
    ELSE LET max_page == page
             from_idx == (max_page - 1) * per_page
             to_idx == Min(max_search_results, max_page * per_page)
         IN  <<from_idx, to_idx>>

\* es_window with the end of the slice not cut at max_search_results.
es_window_to_uncapped(page, per_page, max_search_results, rss) ==
    IF rss THEN <<0, per_page>>
    ELSE LET max_page == Min(page, CeilDiv(max_search_results, per_page))
             from_idx == (max_page - 1) * per_page
             to_idx == max_page * per_page
         IN  <<from_idx, to_idx>>

\* Lines 165-172: the slice s[from:to]
es_window(page, per_page, max_search_results, rss) ==
    IF rss THEN <<0, per_page>>
    ELSE LET max_page == Min(page, CeilDiv(max_search_results, per_page))
             from_idx == (max_page - 1) * per_page
             to_idx == Min(max_search_results, max_page * per_page)
         IN  <<from_idx, to_idx>>

\* Lines 107-112
es_text(term) == IF Len(term) > 0 THEN <<term>> ELSE <<>>

search_elastic(r) ==
    IF Lower(r.sort) \notin DOMAIN es_sort_keys THEN Abort("400")
    ELSE IF r.sort \notin DOMAIN es_sort_keys THEN Raise("KeyError")
    ELSE IF Lower(r.order) \notin order_keys THEN Abort("400")
    ELSE IF Lower(r.quality_filter) \notin quality_keys THEN Abort("400")
    ELSE IF Len(r.category) > 0 /\ ~cat_match(r.category) THEN Abort("400")
    ELSE
    LET ids == IF Len(r.category) > 0 THEN cat_ids(r.category) ELSE <<0, 0>>
        main_cat_id == ids[1]
        sub_cat_id == ids[2]
        sub_category == /\ main_cat_id > 0 /\ sub_cat_id > 0
                        /\ SubCategory_by_category_ids(main_cat_id, sub_cat_id)
        main_category == /\ main_cat_id > 0 /\ ~(sub_cat_id > 0)
                         /\ MainCategory_by_id(main_cat_id)
        user == IF r.user # None THEN User_by_id(r.user) ELSE None
    IN  IF main_cat_id > 0 /\ sub_cat_id > 0 /\ ~sub_category THEN Abort("400")
        ELSE IF main_cat_id > 0 /\ ~(sub_cat_id > 0) /\ ~main_category
             THEN Abort("400")
        ELSE IF r.user # None /\ user = None THEN Abort("404")
        ELSE [status |-> "ok",
              text |-> es_text(r.term),
              sort |-> es_sort_of(r.sort, r.order, r.rss),
              vis |-> es_visibility(user, r.logged_in_user, r.admin, r.rss),
              cat |-> es_category_filter(main_category, sub_category,
                                         main_cat_id, sub_cat_id),
              quality |-> es_quality_filter(ParseInt(r.quality_filter)),
              window |-> es_window(r.page, r.per_page, r.max_search_results,
                                   r.rss)]

(***************************************************************************)
(* search_db                                                               *)
(***************************************************************************)
Column(class_, name) == [class_ |-> class_, name |-> name]

sort_keys ==
    (s_id :> Column("Torrent", "id")) @@
    (s_size :> Column("Torrent", "filesize")) @@
    (s_seeders :> Column("Statistic", "seed_count")) @@
    (s_leechers :> Column("Statistic", "leech_count")) @@
    (s_downloads :> Column("Statistic", "download_count"))

\* The quality filter tuples (flag, value); <<>> stands for None.
filter_keys ==
    (<<"0">> :> <<>>) @@ (<<"1">> :> <<REMAKE, FALSE>>) @@
    (<<"2">> :> <<TRUSTED, TRUE>>) @@ (<<"3">> :> <<COMPLETE, TRUE>>)

\* models.Torrent.flags.op('&')(mask).is_(value)
FlagsIs(mask, value) == [kind |-> "flags", mask |-> mask, value |-> value]

\* column == value
ColEq(field, value) == [kind |-> "eq", field |-> field, value |-> value]

SqlOr(a, b) == [kind |-> "or", a |-> a, b |-> b]

SqlAnd(a, b) == [kind |-> "and", a |-> a, b |-> b]

\* Lines 250-253 and 306-310: the join and the ORDER BY that are compiled.
db_sort_of(sort, order, rss) ==
    LET column == IF rss THEN sort_keys[s_id] ELSE sort_keys[sort]
        order2 == IF rss THEN s_desc ELSE order
    IN  [join |-> IF column.class_ # "Torrent" THEN <<column.class_>> ELSE <<>>,
         order_by |-> <<column, order2>>]

\* getattr(sort, order) finds a method only for the exact names asc and desc.
db_order_defined(order, rss) == (IF rss THEN s_desc ELSE order) \in {s_asc, s_desc}

\* db_visibility with the mask of line 275 holding HIDDEN alone.
db_visibility_hidden_mask(user, logged_in_user, admin, rss) ==
    LET same_user == IF logged_in_user # None THEN logged_in_user = user ELSE FALSE
    IN  IF user # None
        THEN <<ColEq("uploader_id", user)>> \o
             (IF ~admin
              THEN <<FlagsIs(DELETED, FALSE)>> \o
                   (IF ~same_user \/ rss
                    THEN <<FlagsIs(HIDDEN, FALSE)>>
                    ELSE <<>>)
              ELSE <<>>)
        ELSE IF ~admin
             THEN <<FlagsIs(DELETED, FALSE)>> \o
                  (IF logged_in_user # None /\ ~rss
                   THEN <<SqlOr(FlagsIs(HIDDEN, FALSE),
                                ColEq("uploader_id", logged_in_user))>>
                   ELSE <<FlagsIs(HIDDEN, FALSE)>>)
             ELSE <<>>

\* db_visibility with line 274 testing only "rss".
db_visibility_rss_only(user, logged_in_user, admin, rss) ==
    LET same_user == IF logged_in_user # None THEN logged_in_user = user ELSE FALSE
    IN  IF user # None
        THEN <<ColEq("uploader_id", user)>> \o
             (IF ~admin
              THEN <<FlagsIs(DELETED, FALSE)>> \o
                   (IF rss
                    THEN <<FlagsIs(BitOr(HIDDEN, ANONYMOUS), FALSE)>>
                    ELSE <<>>)
              ELSE <<>>)
        ELSE IF ~admin
             THEN <<FlagsIs(DELETED, FALSE)>> \o
                  (IF logged_in_user # None /\ ~rss
                   THEN <<SqlOr(FlagsIs(HIDDEN, FALSE),
                                ColEq("uploader_id", logged_in_user))>>
                   ELSE <<FlagsIs(HIDDEN, FALSE)>>)
             ELSE <<>>

\* The visibility filters of lines 255-289; user is the resolved id or None.
db_visibility(user, logged_in_user, admin, rss) ==
    LET same_user == IF logged_in_user # None THEN logged_in_user = user ELSE FALSE
    IN  IF user # None
        THEN <<ColEq("uploader_id", user)>> \o
             (IF ~admin
              THEN <<FlagsIs(DELETED, FALSE)>> \o
                   (IF ~same_user \/ rss
                    THEN <<FlagsIs(BitOr(HIDDEN, ANONYMOUS), FALSE)>>
                    ELSE <<>>)
              ELSE <<>>)
        ELSE IF ~admin
             THEN <<FlagsIs(DELETED, FALSE)>> \o
                  (IF logged_in_user # None /\ ~rss
                   THEN <<SqlOr(FlagsIs(HIDDEN, FALSE),
                                ColEq("uploader_id", logged_in_user))>>
                   ELSE <<FlagsIs(HIDDEN, FALSE)>>)
             ELSE <<>>

\* Lines 291-295
db_category_filter(main_category, sub_category, main_cat_id, sub_cat_id) ==
    IF main_category THEN <<ColEq("main_category_id", main_cat_id)>>
    ELSE IF sub_category
         THEN <<SqlAnd(ColEq("main_category_id", main_cat_id),
                       ColEq("sub_category_id", sub_cat_id))>>
         ELSE <<>>

\* Lines 297-298
db_quality_filter(filter_tuple) ==
    IF filter_tuple # <<>> THEN <<FlagsIs(filter_tuple[1], filter_tuple[2])>>
    ELSE <<>>

\* shlex.split(term, posix=False) of a term without quote characters: the
\* maximal runs of characters other than the blank.
RECURSIVE SplitBlank(_, _)
SplitBlank(term, cur) ==
    IF Len(term) = 0 THEN (IF Len(cur) > 0 THEN <<cur>> ELSE <<>>)
    ELSE IF Head(term) = " "
         THEN (IF Len(cur) > 0 THEN <<cur>> ELSE <<>>) \o SplitBlank(Tail(term), <<>>)
         ELSE SplitBlank(Tail(term), Append(cur, Head(term)))

\* Lines 300-304: one FullTextSearch filter per item of length >= 2
db_text(term) ==
    IF Len(term) > 0
    THEN SelectSeq(SplitBlank(term, <<>>), LAMBDA item : Len(item) >= 2)
    ELSE <<>>

\* Lines 312-315
db_paging(page, per_page, rss) ==
    IF rss THEN [kind |-> "limit", per_page |-> per_page, page |-> 1]
    ELSE [kind |-> "paginate_faste", per_page |-> per_page, page |-> page]

search_db(r) ==
    IF Lower(r.sort) \notin DOMAIN sort_keys THEN Abort("400")
    ELSE IF r.sort \notin DOMAIN sort_keys THEN Raise("KeyError")
    ELSE IF Lower(r.order) \notin order_keys THEN Abort("400")
    ELSE IF Lower(r.quality_filter) \notin DOMAIN filter_keys THEN Abort("400")
    ELSE
    LET filter_tuple == filter_keys[Lower(r.quality_filter)]
        user == IF r.user # None THEN User_by_id(r.user) ELSE None
    IN  IF r.user # None /\ user = None THEN Abort("404")
        ELSE IF Len(r.category) > 0 /\ ~cat_match(r.category) THEN Abort("400")
        ELSE
        LET ids == IF Len(r.category) > 0 THEN cat_ids(r.category) ELSE <<0, 0>>
            main_cat_id == ids[1]
            sub_cat_id == ids[2]
            sub_category == /\ main_cat_id > 0 /\ sub_cat_id > 0
                            /\ SubCategory_by_category_ids(main_cat_id, sub_cat_id)
            main_category == /\ main_cat_id > 0 /\ ~(sub_cat_id > 0)
                             /\ MainCategory_by_id(main_cat_id)
        IN  \* line 247 tests the category string, which is not empty here
            IF main_cat_id > 0 /\ Len(r.category) = 0 THEN Abort("400")
            ELSE IF ~db_order_defined(r.order, r.rss) THEN Raise("AttributeError")
            ELSE [status |-> "ok",
                  text |-> db_text(r.term),
                  sort |-> db_sort_of(r.sort, r.order, r.rss),
                  vis |-> db_visibility(user, r.logged_in_user, r.admin, r.rss),
                  cat |-> db_category_filter(main_category, sub_category,
                                             main_cat_id, sub_cat_id),
                  quality |-> db_quality_filter(filter_tuple),
                  paging |-> db_paging(r.page, r.per_page, r.rss)]

(***************************************************************************)
(* Requests                                                                *)
(***************************************************************************)
SortInputs ==
    {s_id, s_size, s_downloads, <<"n","a","m","e">>, <<"S","i","z","e">>}

OrderInputs == {s_asc, s_desc, <<"D","E","S","C">>, <<"u","p">>}

QualityInputs == {<<"0">>, <<"1">>, <<"2">>, <<"3">>, <<"4">>, <<>>}

CategoryInputs ==
    {<<"0","_","0">>, <<"1","_","0">>, <<"1","_","2">>, <<"0","_","1">>,
     <<"3","_","0">>, <<"2","_","2">>, <<"1","-","2">>, <<"1","_","1","\n">>,
     <<>>}

TermInputs == {<<>>, <<"a","b"," ","c">>}

\* The defaults of the two signatures
per_page_default == 75
max_search_results_default == 1000

Request(term, user, sort, order, category, quality_filter, page, rss, admin, logged_in_user, per_page, max_search_results) ==
    [term |-> term, user |-> user, sort |-> sort, order |-> order,
     category |-> category, quality_filter |-> quality_filter, page |-> page,
     rss |-> rss, admin |-> admin, logged_in_user |-> logged_in_user,
     per_page |-> per_page, max_search_results |-> max_search_results]

\* Requests that vary what validation and visibility read.
Requests ==
    { Request(<<>>, user, sort, order, category, quality_filter, 1, rss, admin,
              logged_in_user, per_page_default, max_search_results_default) :
        user \in 0..(NumUsers + 1), sort \in SortInputs, order \in OrderInputs,
        category \in CategoryInputs, quality_filter \in QualityInputs,
        rss \in BOOLEAN, admin \in BOOLEAN,
        logged_in_user \in {None} \cup UserIds }

\* Requests that vary what the text clause and the window read.
PageRequests ==
    { Request(term, None, s_id, s_desc, <<"0","_","0">>, <<"0">>, page, rss,
              FALSE, None, per_page, max_search_results) :
        term \in TermInputs, page \in 1..MaxPage, rss \in BOOLEAN,
        per_page \in 1..MaxPerPage, max_search_results \in 1..MaxResultsBound }
    \cup
    { Request(<<>>, None, s_id, s_desc, <<"0","_","0">>, <<"0">>, page, FALSE,
              FALSE, None, per_page_default, max_search_results_default) :
        page \in {1, 13, 14, 15, 50} }

Init == req \in Requests /\ es = Pending /\ sq = Pending

InitPage == req \in PageRequests /\ es = Pending /\ sq = Pending

CallSearchElastic ==
    /\ es.status = "pending"
    /\ es' = search_elastic(req)
    /\ UNCHANGED <<req, sq>>

CallSearchDb ==
    /\ sq.status = "pending"
    /\ sq' = search_db(req)
    /\ UNCHANGED <<req, es>>

Next == CallSearchElastic \/ CallSearchDb

Spec == Init /\ [][Next]_vars

SpecPage == InitPage /\ [][Next]_vars

(***************************************************************************)
(* Records and what the two backends make of a compiled filter list.       *)
(***************************************************************************)
FlagValues == 0..(2 * DELETED - 1)

\* Torrent rows; uploader_id None is the NULL of an upload without account.
Records ==
    [uploader_id : {None} \cup UserIds, flags : FlagValues,
     main_category_id : {1}, sub_category_id : {1}]

CatRecords ==
    [uploader_id : {None}, flags : {0},
     main_category_id : 1..3, sub_category_id : 1..3]

HasFlag(rec, flag) == (rec.flags \div flag) % 2 = 1

\* The document the index holds for a row.
EsDoc(rec) ==
    [uploader_id |-> rec.uploader_id,
     main_category_id |-> rec.main_category_id,
     sub_category_id |-> rec.sub_category_id,
     anonymous |-> HasFlag(rec, ANONYMOUS), hidden |-> HasFlag(rec, HIDDEN),
     trusted |-> HasFlag(rec, TRUSTED), remake |-> HasFlag(rec, REMAKE),
     complete |-> HasFlag(rec, COMPLETE), deleted |-> HasFlag(rec, DELETED)]

\* A term filter matches the exact value; a bool of two clauses either one.
EsMatch(q, doc) ==
    IF q.kind = "term" THEN doc[q.field] = q.value
    ELSE doc[q.a.field] = q.a.value \/ doc[q.b.field] = q.b.value

\* The filters of a search are a conjunction.
EsSat(filters, doc) == \A i \in 1..Len(filters) : EsMatch(filters[i], doc)

\* SQL's three truth values: "T", "F" and "N" (NULL).
SqlAtom(e, row) ==
    IF e.kind = "flags"
    THEN (IF (BitAnd(row.flags, e.mask) # 0) = e.value THEN "T" ELSE "F")
    ELSE IF e.field = "uploader_id" /\ row[e.field] = None THEN "N"
         ELSE IF row[e.field] = e.value THEN "T" ELSE "F"

SqlEval(e, row) ==
    IF e.kind = "or"
    THEN LET a == SqlAtom(e.a, row)
             b == SqlAtom(e.b, row)
         IN  IF a = "T" \/ b = "T" THEN "T"
             ELSE IF a = "F" /\ b = "F" THEN "F" ELSE "N"
    ELSE IF e.kind = "and"
    THEN LET a == SqlAtom(e.a, row)
             b == SqlAtom(e.b, row)
         IN  IF a = "F" \/ b = "F" THEN "F"
             ELSE IF a = "T" /\ b = "T" THEN "T" ELSE "N"
    ELSE SqlAtom(e, row)

\* A row is selected when every filter() of the query is true of it.
DbSat(filters, row) == \A i \in 1..Len(filters) : SqlEval(filters[i], row) = "T"

EsVisible(rec) == EsSat(es.vis, EsDoc(rec))

DbVisible(rec) == DbSat(sq.vis, rec)

(***************************************************************************)
(* Properties                                                              *)
(***************************************************************************)
EsOk == es.status = "ok"

DbOk == sq.status = "ok"

EsDone == es.status # "pending"

DbDone == sq.status # "pending"

\* C1: with rss set, every query that is compiled sorts by (id, descending)
\* in both backends, whatever sort and order the caller gave.
C1_RssSortIsIdDesc ==
    req.rss =>
        /\ EsOk => es.sort = <<"-", "id">>
        /\ DbOk => sq.sort.order_by = <<Column("Torrent", "id"), s_desc>>

\* C2 as stated: with rss set, for every user, logged_in_user and admin, in
\* both backends, no admitted record is hidden or anonymous, and every
\* admitted record is also admitted without a logged-in user.
C2_RssNeverExposes ==
    req.rss =>
        /\ EsOk => \A rec \in Records : EsVisible(rec) =>
              /\ ~HasFlag(rec, HIDDEN) /\ ~HasFlag(rec, ANONYMOUS)
              /\ EsSat(es_visibility(req.user, None, req.admin, req.rss),
                       EsDoc(rec))
        /\ DbOk => \A rec \in Records : DbVisible(rec) =>
              /\ ~HasFlag(rec, HIDDEN) /\ ~HasFlag(rec, ANONYMOUS)
              /\ DbSat(db_visibility(req.user, None, req.admin, req.rss), rec)

\* C2 amended: with rss set and admin not set, in both backends, no admitted
\* record is deleted or hidden, in profile view no admitted record is
\* anonymous, and every admitted record is also admitted without a
\* logged-in user.
C2_RssNonAdminNeverExposes ==
    (req.rss /\ ~req.admin) =>
        /\ EsOk => \A rec \in Records : EsVisible(rec) =>
              /\ ~HasFlag(rec, HIDDEN) /\ ~HasFlag(rec, DELETED)
              /\ req.user # None => ~HasFlag(rec, ANONYMOUS)
              /\ EsSat(es_visibility(req.user, None, req.admin, req.rss),
                       EsDoc(rec))
        /\ DbOk => \A rec \in Records : DbVisible(rec) =>
              /\ ~HasFlag(rec, HIDDEN) /\ ~HasFlag(rec, DELETED)
              /\ req.user # None => ~HasFlag(rec, ANONYMOUS)
              /\ DbSat(db_visibility(req.user, None, req.admin, req.rss), rec)

\* An rss request of a profile by its logged-in owner, compiled by both.
C2_Witness ==
    /\ EsOk /\ DbOk /\ req.rss /\ ~req.admin
    /\ req.user # None /\ req.logged_in_user = req.user
    /\ \E rec \in Records : EsVisible(rec) /\ DbVisible(rec)

\* C3: a record satisfies the visibility filters search_elastic built if and
\* only if it satisfies those search_db built for the same request.
C3_VisibilityEquivalence ==
    (EsOk /\ DbOk) => \A rec \in Records : EsVisible(rec) <=> DbVisible(rec)

\* Both compiled the general view of a logged-in user, whose own hidden
\* record is admitted and another's is not.
C3_Witness ==
    /\ EsOk /\ DbOk /\ req.user = None /\ ~req.admin /\ ~req.rss
    /\ req.logged_in_user # None
    /\ \E rec \in Records : HasFlag(rec, HIDDEN) /\ EsVisible(rec) /\ DbVisible(rec)
    /\ \E rec \in Records : ~EsVisible(rec) /\ ~DbVisible(rec)

ProfileRecords == { rec \in Records : rec.uploader_id = req.user }

OwnerView == req.logged_in_user = req.user /\ ~req.rss

\* C4 as stated: in profile view the owner outside rss is shown their
\* non-deleted hidden and anonymous records; any other viewer, and rss, is
\* shown no hidden or anonymous record of the profile.
C4_OwnerSelfView ==
    req.user # None =>
        /\ (EsOk /\ OwnerView) => \A rec \in ProfileRecords :
              ~HasFlag(rec, DELETED) => EsVisible(rec)
        /\ (DbOk /\ OwnerView) => \A rec \in ProfileRecords :
              ~HasFlag(rec, DELETED) => DbVisible(rec)
        /\ (EsOk /\ ~OwnerView) => \A rec \in ProfileRecords :
              (HasFlag(rec, HIDDEN) \/ HasFlag(rec, ANONYMOUS)) => ~EsVisible(rec)
        /\ (DbOk /\ ~OwnerView) => \A rec \in ProfileRecords :
              (HasFlag(rec, HIDDEN) \/ HasFlag(rec, ANONYMOUS)) => ~DbVisible(rec)

\* C4 amended: in profile view the owner outside rss is shown their
\* non-deleted hidden and anonymous records; any other viewer who is not an
\* admin, and rss without admin, is shown no hidden or anonymous record of
\* the profile.
C4_OwnerSelfViewNonAdmin ==
    req.user # None =>
        /\ (EsOk /\ OwnerView) => \A rec \in ProfileRecords :
              ~HasFlag(rec, DELETED) => EsVisible(rec)
        /\ (DbOk /\ OwnerView) => \A rec \in ProfileRecords :
              ~HasFlag(rec, DELETED) => DbVisible(rec)
        /\ (EsOk /\ ~OwnerView /\ ~req.admin) => \A rec \in ProfileRecords :
              (HasFlag(rec, HIDDEN) \/ HasFlag(rec, ANONYMOUS)) => ~EsVisible(rec)
        /\ (DbOk /\ ~OwnerView /\ ~req.admin) => \A rec \in ProfileRecords :
              (HasFlag(rec, HIDDEN) \/ HasFlag(rec, ANONYMOUS)) => ~DbVisible(rec)

\* The owner, not an admin, views their profile outside rss and both
\* backends admit a record of theirs that is hidden and anonymous.
C4_Witness ==
    /\ EsOk /\ DbOk /\ req.user # None /\ OwnerView /\ ~req.admin
    /\ \E rec \in ProfileRecords :
          /\ HasFlag(rec, HIDDEN) /\ HasFlag(rec, ANONYMOUS)
          /\ EsVisible(rec) /\ DbVisible(rec)

GeneralViewAdmits(rec) ==
    \/ req.admin
    \/ /\ ~HasFlag(rec, DELETED)
       /\ \/ ~HasFlag(rec, HIDDEN)
          \/ /\ req.logged_in_user # None /\ ~req.rss
             /\ rec.uploader_id = req.logged_in_user

\* C5: in general view a record is admitted iff the caller is an admin, or
\* the record is not deleted and (not hidden, or uploaded by the logged-in
\* viewer of a request that is not rss).
C5_GeneralView ==
    req.user = None =>
        /\ EsOk => \A rec \in Records : EsVisible(rec) <=> GeneralViewAdmits(rec)
        /\ DbOk => \A rec \in Records : DbVisible(rec) <=> GeneralViewAdmits(rec)

\* The general view of a logged-in viewer who is no admin, as rss: both
\* compiled it and no hidden record of the viewer is admitted.
C5_Witness ==
    /\ EsOk /\ DbOk /\ req.user = None /\ ~req.admin /\ req.rss
    /\ req.logged_in_user # None
    /\ \E rec \in Records :
          /\ rec.uploader_id = req.logged_in_user /\ HasFlag(rec, HIDDEN)
          /\ ~EsVisible(rec) /\ ~DbVisible(rec)

\* The category ids a well-formed code names.
ReqMain == cat_ids(req.category)[1]

ReqSub == cat_ids(req.category)[2]

CategoryKnown ==
    IF ReqSub > 0 THEN <<ReqMain, ReqSub>> \in SubCategoryIds
    ELSE ReqMain \in MainCategoryIds

CategoryAdmits(rec) ==
    \/ ReqMain = 0
    \/ /\ rec.main_category_id = ReqMain
       /\ ReqSub > 0 => rec.sub_category_id = ReqSub

\* C6: in both backends a code with main id 0 adds no category filter, M_0
\* filters to main category M, M_S to main category M and sub-category S,
\* and no query is built when the catalog lacks M, respectively (M, S).
C6_CategoryResolution ==
    cat_match(req.category) =>
        /\ EsOk => /\ ReqMain > 0 => CategoryKnown
                   /\ ReqMain = 0 => es.cat = <<>>
                   /\ \A rec \in CatRecords :
                         EsSat(es.cat, EsDoc(rec)) <=> CategoryAdmits(rec)
        /\ DbOk => /\ ReqMain > 0 => CategoryKnown
                   /\ ReqMain = 0 => sq.cat = <<>>
                   /\ \A rec \in CatRecords :
                         DbSat(sq.cat, rec) <=> CategoryAdmits(rec)

SortNames == {s_id, s_size, s_seeders, s_leechers, s_downloads}

InvalidInput ==
    \/ req.sort \notin SortNames
    \/ req.order \notin {s_asc, s_desc}
    \/ req.quality_filter \notin {<<"0">>, <<"1">>, <<"2">>, <<"3">>}
    \/ ~cat_match(req.category)

\* C7: a request whose sort, order or quality code is not one of the listed
\* values as written, or whose category code does not match <main>_<sub>
\* (the empty code included), ends in the 400 outcome in both backends.
C7_InvalidInputRejected ==
    InvalidInput =>
        /\ EsDone => es.status = "400"
        /\ DbDone => sq.status = "400"

QualityRecords ==
    [uploader_id : {None}, flags : {0, REMAKE, TRUSTED, COMPLETE, REMAKE + TRUSTED,
                                    TRUSTED + COMPLETE, REMAKE + TRUSTED + COMPLETE},
     main_category_id : {1}, sub_category_id : {1}]

\* C9: both backends end a request in the same outcome class (400, 404 or a
\* compiled query), and two compiled queries hold the same category and
\* quality predicates.
C9_ConsistentValidation ==
    (EsDone /\ DbDone) =>
        /\ es.status = sq.status
        /\ es.status \in {"400", "404", "ok"}
        /\ EsOk =>
              /\ \A rec \in CatRecords :
                    EsSat(es.cat, EsDoc(rec)) <=> DbSat(sq.cat, rec)
              /\ \A rec \in QualityRecords :
                    EsSat(es.quality, EsDoc(rec)) <=> DbSat(sq.quality, rec)

\* The least n with n * per_page >= max_search_results
LastPage ==
    CHOOSE n \in 1..req.max_search_results :
        /\ n * req.per_page >= req.max_search_results
        /\ \A m \in 1..(n - 1) : m * req.per_page < req.max_search_results

EffectivePage == IF req.page <= LastPage THEN req.page ELSE LastPage

\* C8: outside rss the window of the index backend is from = (e-1)*perPage,
\* to = min(maxResults, e*perPage) with e = min(page, ceil(maxResults /
\* perPage)); a page beyond the last gets the window of the last page, and
\* maxResults=1000, perPage=75 gives <<975, 1000>> for pages 14 and 50.
C8_PaginationBound ==
    (EsOk /\ ~req.rss) =>
        /\ es.window[1] = (EffectivePage - 1) * req.per_page
        /\ es.window[2] = IF EffectivePage * req.per_page <= req.max_search_results
                          THEN EffectivePage * req.per_page
                          ELSE req.max_search_results
        /\ req.page > LastPage =>
              es.window = search_elastic([req EXCEPT !.page = LastPage]).window
        /\ (req.max_search_results = 1000 /\ req.per_page = 75
            /\ req.page \in {14, 50}) => es.window = <<975, 1000>>

\* Page 50 of 75 per page under a cap of 1000 was compiled.
C8_Witness ==
    /\ EsOk /\ ~req.rss /\ req.page = 50 /\ req.per_page = 75
    /\ req.max_search_results = 1000 /\ es.window = <<975, 1000>>

\* C10: the slice [from, to) of the index backend has 0 <= from < to and
\* to - from <= perPage, and outside rss to <= maxResults.
C10_WindowInvariant ==
    EsOk =>
        /\ 0 <= es.window[1] /\ es.window[1] < es.window[2]
        /\ es.window[2] - es.window[1] <= req.per_page
        /\ ~req.rss => es.window[2] <= req.max_search_results

\* A page beyond the last, whose window is cut short by the cap.
C10_Witness ==
    /\ EsOk /\ ~req.rss /\ req.page > LastPage
    /\ es.window[2] = req.max_search_results
    /\ es.window[2] - es.window[1] < req.per_page

=============================================================================
